---- MODULE Spec2Model ----
(***************************************************************************)
(* A model of the prescription endpoint of url_extract:                    *)
(*   src/routes/url_api.py  extract_and_map_tests (the request handler)    *)
(*   src/utils.py           load_image_from_source, validate_image,        *)
(*                          encode_image, compress_image                   *)
(* The matcher module testMap_utils (map_test_code, map_ref_code) and the  *)
(* configuration loader are not part of the sources; they are modelled     *)
(* from sections 3, 4.2, 4.3 and 7 of the specification.                   *)
(*                                                                         *)
(* Units.  A byte sequence is modelled in blocks of 1 MiB: one element of  *)
(* a sequence stands for 1 MiB of data and carries its provenance (the     *)
(* request whose image was encoded, the quality of the encoding and the    *)
(* position in it).  Similarity scores and thresholds are percentages: the *)
(* threshold 0.6 is 60 and the threshold 1.5 is 150.                         *)
(***************************************************************************)
EXTENDS Integers, Sequences, FiniteSets, TLC

\* ---------------------------------------------------------------- bounds
\* The largest encoding of an image, in blocks.
MaxBlocks == 2
\* The configured max_size_mb ranges over 0..MaxSizeMb.
MaxSizeMb == 2
\* The longest list of test names the language model returns.
MaxTests == 2
\* The wall clock shows the seconds 0..MaxClock.
MaxClock == 1
\* ------------------------------------------------------- program constants
\* utils.py:53  quality = 95
StartQuality == 95
\* utils.py:62  quality -= 5
QualityStep == 5
\* utils.py:59  ... or quality <= 5
MinQuality == 5
\* utils.py:58-59  size_kb = buffer.tell() / 1024 ; max_size_mb * 1024
KbPerMb == 1024

\* Python's None.
None == "None"

Min(a, b) == IF a <= b THEN a ELSE b
Max(a, b) == IF a >= b THEN a ELSE b

\* =====================================================================
\* utils.py
\* =====================================================================

\* utils.py:9
valid_extensions == {"png", "jpg", "jpeg", "gif", "webp"}

\* str.lower() on the image formats of the model (utils.py:33, utils.py:65).
Lower(fmt) ==
    CASE fmt = "JPEG" -> "jpeg"
      [] fmt = "PNG"  -> "png"
      [] fmt = "BMP"  -> "bmp"
      [] OTHER        -> fmt

\* utils.py:33, the test of validate_image: the format is not a supported one
\* (validate_image then raises HTTPException(400), utils.py:34-36).
UnsupportedFormat(img) == Lower(img.format) \notin valid_extensions

\* The n blocks that img.save produces for request r's image at quality q.
Encoding(r, q, n) == [i \in 1..n |-> [req |-> r, quality |-> q, pos |-> i]]

\* utils.py:56-57, buffer.seek(0); img.save(buffer, ...): the encoder writes
\* its output from position 0 over what the buffer holds.  A BytesIO is not
\* truncated by a write, so what lies beyond the new data stays.
SaveInto(buffer, enc) ==
    enc \o SubSeq(buffer, Len(enc) + 1, Len(buffer))

\* utils.py:58, size_kb = buffer.tell() / 1024: the position after the save,
\* that is the length of the new encoding (pos blocks of 1 MiB), in KB.
SizeKb(pos) == pos * KbPerMb

\* utils.py:59, size_kb <= max_size_mb * 1024
WithinLimit(pos, max_size_mb) == SizeKb(pos) <= max_size_mb * KbPerMb

\* A loop exit that forgets the quality floor.
LoopExitNoFloor(pos, quality, max_size_mb) == WithinLimit(pos, max_size_mb)

\* utils.py:59-60, the loop's exit test.
LoopExit(pos, quality, max_size_mb) ==
    WithinLimit(pos, max_size_mb) \/ quality <= MinQuality

\* utils.py:64-66: the timestamp has a resolution of one second, so the path
\* is decided by the clock second and the image format alone.
CompressedPath(now, fmt) == [second |-> now, ext |-> Lower(fmt)]

\* utils.py:41-46, base64.b64encode: every 3 bytes become one group of 4
\* characters; a last group of 1 or 2 bytes is padded with "=".
encode_image(bytes) ==
    [groups |-> [g \in 1..((Len(bytes) + 2) \div 3) |->
                    SubSeq(bytes, 3 * g - 2, Min(3 * g, Len(bytes)))],
     pad    |-> (3 - (Len(bytes) % 3)) % 3]

\* An image: its format and the size of its encoding as a function of the
\* quality (hi blocks above the knee, lo blocks at or below it).
SizeAt(img, q) == IF q > img.knee THEN img.hi ELSE img.lo

\* utils.py:53-62, the whole loop for request r's image, from quality q with
\* buffer contents buffer: the buffer when the loop is left.
RECURSIVE CompressLoop(_, _, _, _, _)
CompressLoop(r, img, q, buffer, max_size_mb) ==
    LET n == SizeAt(img, q)
        b == SaveInto(buffer, Encoding(r, q, n))
    IN  IF LoopExit(n, q, max_size_mb)
        THEN b
        ELSE CompressLoop(r, img, q - QualityStep, b, max_size_mb)

\* =====================================================================
\* The reference catalog and the fuzzy matcher (testMap_utils), modelled
\* from the specification, sections 3, 4.1-4.3 and 7.
\* =====================================================================

\* Thresholds a configuration file may hold, in percent (1.5 is 150).
Thresholds == {-10, 0, 60, 100, 150}

\* The names the language model reads off a prescription.
TestNames == {"", "Cbc ", "cbx"}
RefNames == {"", "Dr  A."}

\* The characters of a string (a string cannot be taken apart otherwise).
Spell(s) ==
    CASE s = ""       -> << >>
      [] s = "cb"     -> <<"c", "b">>
      [] s = "cbc"    -> <<"c", "b", "c">>
      [] s = "Cbc "   -> <<"C", "b", "c", " ">>
      [] s = "cbx"    -> <<"c", "b", "x">>
      [] s = "lft"    -> <<"l", "f", "t">>
      [] s = "dr a"   -> <<"d", "r", " ", "a">>
      [] s = "Dr  A." -> <<"D", "r", " ", " ", "A", ".">>
      [] s = "lab"    -> <<"l", "a", "b">>

\* Section 3/4.1: the test catalog, unique by code and immutable; the entries
\* are listed in the lexicographic order of their codes.
TestCatalog ==
    << [canonical_name |-> "cb",  code |-> "CB002"],
       [canonical_name |-> "cbc", code |-> "CBC001"],
       [canonical_name |-> "lft", code |-> "LFT003"] >>

\* Section 3/4.1: the referrer catalog, in the order of the codes.
RefCatalog ==
    << [canonical_name |-> "dr a", code |-> "R001", type |-> "doctor"],
       [canonical_name |-> "lab",  code |-> "R002", type |-> "lab"] >>

\* Section 4.2 step 1: case folding of one character.
Fold(c) ==
    CASE c = "A" -> "a"
      [] c = "B" -> "b"
      [] c = "C" -> "c"
      [] c = "D" -> "d"
      [] OTHER   -> c

\* Section 4.2 step 1: a space is dropped when another space or the end of
\* the name follows it.
RECURSIVE CollapseSpaces(_)
CollapseSpaces(s) ==
    IF s = << >> THEN << >>
    ELSE IF Head(s) = " " /\ (Len(s) = 1 \/ s[2] = " ")
         THEN CollapseSpaces(Tail(s))
         ELSE <<Head(s)>> \o CollapseSpaces(Tail(s))

\* Section 4.2 step 1: trim, case-fold, collapse internal whitespace, strip
\* punctuation.
Normalize(chars) ==
    LET folded    == [i \in 1..Len(chars) |-> Fold(chars[i])]
        nopunct   == SelectSeq(folded, LAMBDA c : c # ".")
        collapsed == CollapseSpaces(nopunct)
    IN  IF collapsed # << >> /\ Head(collapsed) = " "
        THEN Tail(collapsed)
        ELSE collapsed

\* The edit distance of two character sequences.
RECURSIVE EditDistance(_, _)
EditDistance(a, b) ==
    IF a = << >> THEN Len(b)
    ELSE IF b = << >> THEN Len(a)
    ELSE IF Head(a) = Head(b) THEN EditDistance(Tail(a), Tail(b))
    ELSE 1 + Min(EditDistance(Tail(a), Tail(b)),
                 Min(EditDistance(Tail(a), b), EditDistance(a, Tail(b))))

\* Section 4.2 step 2: the normalized edit distance as a score in 0..100.
Similarity(a, b) ==
    LET m == Max(Len(a), Len(b))
    IN  IF m = 0 THEN 100 ELSE ((m - EditDistance(a, b)) * 100) \div m

Score(cat, norm, i) == Similarity(norm, Normalize(Spell(cat[i].canonical_name)))

\* Section 4.2 step 3: entry i is preferred to entry j: the higher score,
\* then the shorter canonical name, then the smaller code.
Preferred(cat, norm, i, j) ==
    LET si == Score(cat, norm, i)
        sj == Score(cat, norm, j)
        li == Len(Spell(cat[i].canonical_name))
        lj == Len(Spell(cat[j].canonical_name))
    IN  \/ si > sj
        \/ si = sj /\ li < lj
        \/ si = sj /\ li = lj /\ i < j

BestIndex(cat, norm) ==
    CHOOSE i \in 1..Len(cat) : \A j \in 1..Len(cat) : j # i => Preferred(cat, norm, i, j)

\* Section 7: a threshold outside [0,1] is a configuration error.
ValidThreshold(threshold) == threshold >= 0 /\ threshold <= 100

\* Section 4.2, match(raw_name, catalog, threshold): an InvalidThreshold
\* error, or the index of the matched entry (0: the absent result).  scored
\* tells whether the scoring of step 2 was reached.
Match(raw_name, cat, threshold) ==
    IF ~ValidThreshold(threshold)
    THEN [raised |-> "InvalidThreshold", index |-> 0, scored |-> FALSE]
    ELSE IF raw_name = "" \/ cat = << >>
    THEN [raised |-> None, index |-> 0, scored |-> FALSE]
    ELSE LET norm == Normalize(Spell(raw_name))
             i    == BestIndex(cat, norm)
         IN  [raised |-> None,
              index  |-> IF Score(cat, norm, i) >= threshold THEN i ELSE 0,
              scored |-> TRUE]

\* testMap_utils.map_test_code(input_test_name, threshold): the pair
\* (matched_test_name, matched_test_code), (None, None) when absent.
map_test_code(input_test_name, threshold) ==
    LET m == Match(input_test_name, TestCatalog, threshold)
    IN  [raised |-> m.raised, scored |-> m.scored,
         ret |-> IF m.index = 0 THEN <<None, None>>
                 ELSE <<TestCatalog[m.index].canonical_name, TestCatalog[m.index].code>>]

\* testMap_utils.map_ref_code(ref_name, threshold): the triple
\* (matched_ref_name, matched_ref_code, matched_ref_type).
map_ref_code(ref_name, threshold) ==
    LET m == Match(ref_name, RefCatalog, threshold)
    IN  [raised |-> m.raised, scored |-> m.scored,
         ret |-> IF m.index = 0 THEN <<None, None, None>>
                 ELSE <<RefCatalog[m.index].canonical_name, RefCatalog[m.index].code,
                        RefCatalog[m.index].type>>]

\* =====================================================================
\* State
\* =====================================================================

VARIABLES
    threshold,      \* url_api.py:24, config['threshold'], in percent
    max_size_mb,    \* url_api.py:23, config['max_size_mb']
    clock,          \* the latest second datetime.now() has shown (utils.py:64)
    fs,             \* the files of the directory output/, by path
    handler,        \* per request: the handler's position and its locals
    loop            \* one call of compress_image, step by step

vars == <<threshold, max_size_mb, clock, fs, handler, loop>>

Requests == 1..2
\* The worker processes that serve the application.
Procs == {"w1", "w2"}

MaxSizes == 0..MaxSizeMb

Formats == {"JPEG", "PNG", "BMP"}
Knees == {0, 90}
Images == [format : Formats, hi : 1..MaxBlocks, lo : 1..MaxBlocks, knee : Knees]
NoImage == [format |-> "", hi |-> 0, lo |-> 0, knee |-> 0]

\* What the URL of a request leads to (url_api.py:44-64).
Urls == {"local_missing", "local", "remote", "unloadable"}

Paths == [second : 0..MaxClock, ext : {Lower(f) : f \in Formats}]
NoPath == [second |-> 0, ext |-> ""]

\* What the language model extracts (url_api.py:114-118, 139).
TestLists == UNION {[1..n -> TestNames] : n \in 0..MaxTests}
NoData ==
    [parsable |-> FALSE, has_tests |-> FALSE, prescribed_test |-> << >>,
     has_ref |-> FALSE, referrer_name |-> "",
     matched_ref_name |-> None, matched_ref_code |-> None, matched_ref_type |-> None]
\* The replies of the model: one that is no JSON, one without the key
\* prescribed_test, and the JSON objects with a list of test names, with or
\* without the key referrer_name.
Replies ==
    {NoData}
    \cup {[NoData EXCEPT !.parsable = TRUE, !.has_ref = TRUE, !.referrer_name = "Dr  A."]}
    \cup {[NoData EXCEPT !.parsable = TRUE, !.has_tests = TRUE, !.prescribed_test = l]
            : l \in TestLists}
    \cup {[NoData EXCEPT !.parsable = TRUE, !.has_tests = TRUE, !.prescribed_test = l,
                         !.has_ref = TRUE, !.referrer_name = n]
            : l \in TestLists, n \in RefNames}

NoResponse == [status |-> 0, detail |-> "", extracted_data |-> NoData, mapped_tests |-> << >>]

Idle ==
    [pc |-> "idle", proc |-> "", image |-> NoImage,
     compressed_image_path |-> NoPath, buffer |-> << >>,
     encoded_image |-> encode_image(<< >>),
     raised |-> << >>, extracted_data |-> NoData, test_names |-> << >>, idx |-> 0,
     mapped_tests |-> << >>, calls |-> << >>, response |-> NoResponse]

IdleLoop ==
    [pc |-> "idle", quality |-> StartQuality, buffer |-> << >>, pos |-> 0,
     encodings |-> 0, file |-> << >>]

InitEndpoint ==
    /\ clock = 0
    /\ fs = [p \in Paths |-> << >>]
    /\ handler = [r \in Requests |-> Idle]

Init ==
    /\ threshold \in Thresholds
    /\ max_size_mb \in MaxSizes
    /\ InitEndpoint
    /\ loop = IdleLoop

\* =====================================================================
\* compress_image, step by step (utils.py:48-71)
\* =====================================================================

\* utils.py:50-54: the image is opened, quality = 95, buffer = BytesIO().
CompressStart ==
    /\ loop.pc = "idle"
    /\ loop' = [loop EXCEPT !.pc = "loop"]
    /\ UNCHANGED <<threshold, max_size_mb, clock, fs, handler>>

\* utils.py:55-62, one iteration: the encoder produces n blocks at the current
\* quality (any size: each quality is encoded at most once).
CompressIterate ==
    /\ loop.pc = "loop"
    /\ \E n \in 1..MaxBlocks :
         LET b == SaveInto(loop.buffer, Encoding(1, loop.quality, n))
         IN  loop' = [loop EXCEPT
                 !.buffer = b,
                 !.pos = n,
                 !.encodings = @ + 1,
                 !.pc = IF LoopExit(n, loop.quality, max_size_mb) THEN "write" ELSE "loop",
                 !.quality = IF LoopExit(n, loop.quality, max_size_mb)
                             THEN @ ELSE @ - QualityStep]
    /\ UNCHANGED <<threshold, max_size_mb, clock, fs, handler>>

\* utils.py:68-71: f.write(buffer.getvalue()), the whole buffer.
CompressWrite ==
    /\ loop.pc = "write"
    /\ loop' = [loop EXCEPT !.file = loop.buffer, !.pc = "returned"]
    /\ UNCHANGED <<threshold, max_size_mb, clock, fs, handler>>

NextCompress == CompressStart \/ CompressIterate \/ CompressWrite

SpecCompress == Init /\ [][NextCompress]_vars

\* =====================================================================
\* extract_and_map_tests (url_api.py:33-163)
\* =====================================================================

\* The handler is an async function without an await: within one worker
\* process a request runs from its first line to its response before the next
\* one starts.  Requests of different worker processes interleave; the
\* processes share the directory output/ and the clock.
Active(r) == handler[r].pc \notin {"idle", "done"}
ProcFree(p, r) == \A o \in Requests \ {r} : Active(o) => handler[o].proc # p

\* url_api.py:161-163, the handler's except clause: whatever is raised inside
\* the try block ends as HTTPException(500).  raised notes the status of an
\* HTTPException raised inside (empty for another exception).
Caught(h, raised, what) ==
    [Idle EXCEPT !.pc = "done",
              !.proc = h.proc,
              !.calls = h.calls,
              !.extracted_data = h.extracted_data,
              !.test_names = h.test_names,
              !.raised = raised,
              !.response = [NoResponse EXCEPT !.status = 500, !.detail = what]]

\* url_api.py:41-70: the image is found, loaded, saved to bytes and validated.
Acquire(r, procs, urls, images) ==
    /\ handler[r].pc = "idle"
    /\ \E p \in procs, url \in urls, img \in images :
         /\ ProcFree(p, r)
         /\ LET h == [handler[r] EXCEPT !.proc = p]
            IN  handler' = [handler EXCEPT ![r] =
                  IF url = "local_missing"
                  THEN \* url_api.py:55-57
                       Caught(h, <<404>>, "File not found")
                  ELSE IF url = "unloadable"
                  THEN \* utils.py:26-27, load_image_from_source
                       Caught(h, <<500>>, "Error loading image")
                  ELSE IF UnsupportedFormat(img)
                  THEN \* utils.py:33-36, validate_image
                       Caught(h, <<400>>, "Invalid image")
                  ELSE [h EXCEPT !.pc = "validated", !.image = img]]
    /\ UNCHANGED <<threshold, max_size_mb, clock, fs, loop>>

\* url_api.py:73 and utils.py:50-68: the compression loop, the path from the
\* clock (which shows the latest second read or a later one), and
\* open(path, 'wb'), which creates or empties the file.
Compress(r) ==
    /\ handler[r].pc = "validated"
    /\ \E now \in clock..MaxClock :
         LET h    == handler[r]
             path == CompressedPath(now, h.image.format)
         IN  /\ handler' = [handler EXCEPT ![r] =
                   [h EXCEPT !.pc = "opened",
                             !.buffer = CompressLoop(r, h.image, StartQuality, << >>, max_size_mb),
                             !.compressed_image_path = path]]
             /\ fs' = [fs EXCEPT ![path] = << >>]
             /\ clock' = now
    /\ UNCHANGED <<threshold, max_size_mb, loop>>

\* utils.py:69-71: f.write(buffer.getvalue()) and the close that flushes it.
\* The data goes to offset 0 of the file as it is then.
WriteFile(r) ==
    /\ handler[r].pc = "opened"
    /\ LET h == handler[r]
       IN  /\ fs' = [fs EXCEPT ![h.compressed_image_path] = SaveInto(@, h.buffer)]
           /\ handler' = [handler EXCEPT ![r] = [h EXCEPT !.pc = "written"]]
    /\ UNCHANGED <<threshold, max_size_mb, clock, loop>>

\* url_api.py:77-78: the file at the path is read and base64-encoded.
ReadBack(r) ==
    /\ handler[r].pc = "written"
    /\ LET h == handler[r]
       IN  handler' = [handler EXCEPT ![r] =
             [h EXCEPT !.pc = "encoded",
                       !.encoded_image = encode_image(fs[h.compressed_image_path])]]
    /\ UNCHANGED <<threshold, max_size_mb, clock, fs, loop>>

\* A test that never finds the list empty.
NoTestNamesNever(test_names) == FALSE

\* url_api.py:121, if not test_names
NoTestNames(test_names) == test_names = << >>

\* url_api.py:83-123: the image goes to the language model, the reply is
\* parsed, and the test names are taken from it.
CallModel(r, replies) ==
    /\ handler[r].pc = "encoded"
    /\ \E reply \in replies :
         LET h          == handler[r]
             test_names == IF reply.has_tests THEN reply.prescribed_test ELSE << >>
         IN  handler' = [handler EXCEPT ![r] =
               IF ~reply.parsable
               THEN \* url_api.py:115, json.loads raises
                    Caught(h, << >>, "JSONDecodeError")
               ELSE IF NoTestNames(test_names)
               THEN \* url_api.py:121-123
                    Caught(h, <<400>>, "No test names found in the extracted data.")
               ELSE \* image, buffer, path and encoded_image are not used again
                    [Idle EXCEPT !.pc = "mapping",
                              !.proc = h.proc,
                              !.extracted_data = reply,
                              !.test_names = test_names,
                              !.idx = 1,
                              !.mapped_tests = << >>]]
    /\ UNCHANGED <<threshold, max_size_mb, clock, fs, loop>>

\* A test that takes every result for a match.
IsMatchedAlways(ret) == TRUE

\* url_api.py:130
IsMatched(ret) == ret # <<None, None>>

\* A matcher error taken for a result.
MatcherRaisedNever(res) == FALSE

\* The call of a matcher raised instead of returning.
MatcherRaised(res) == res.raised # None

\* A loop that leaves out every other element.
NextIndexSkipping(idx) == idx + 2

\* url_api.py:128, for input_test_name in test_names: on to the next element.
NextIndex(idx) == idx + 1

\* url_api.py:128-136, one iteration of the loop over test_names.
MapTest(r) ==
    /\ handler[r].pc = "mapping"
    /\ handler[r].idx <= Len(handler[r].test_names)
    /\ LET h               == handler[r]
           input_test_name == h.test_names[h.idx]
           res             == map_test_code(input_test_name, threshold)
           call            == [fn |-> "map_test_code", arg |-> input_test_name,
                               raised |-> res.raised, scored |-> res.scored, ret |-> res.ret]
           called          == [h EXCEPT !.calls = Append(@, call)]
       IN  handler' = [handler EXCEPT ![r] =
             IF MatcherRaised(res)
             THEN Caught(called, << >>, res.raised)
             ELSE [called EXCEPT
                     !.idx = NextIndex(@),
                     !.mapped_tests =
                        IF IsMatched(res.ret)
                        THEN Append(@, [input_test_name   |-> input_test_name,
                                        matched_test_name |-> res.ret[1],
                                        matched_test_code |-> res.ret[2]])
                        ELSE @]]
    /\ UNCHANGED <<threshold, max_size_mb, clock, fs, loop>>

\* url_api.py:139-159: the referrer is mapped and the response is returned.
MapRef(r) ==
    /\ handler[r].pc = "mapping"
    /\ handler[r].idx > Len(handler[r].test_names)
    /\ LET h == handler[r]
       IN  handler' = [handler EXCEPT ![r] =
             IF ~h.extracted_data.has_ref
             THEN \* url_api.py:139, extracted_data['referrer_name']
                  Caught(h, << >>, "KeyError")
             ELSE LET ref_name == h.extracted_data.referrer_name
                      res      == map_ref_code(ref_name, threshold)
                      call     == [fn |-> "map_ref_code", arg |-> ref_name,
                                   raised |-> res.raised, scored |-> res.scored,
                                   ret |-> res.ret]
                      called   == [h EXCEPT !.calls = Append(@, call)]
                      data     == [h.extracted_data EXCEPT
                                     !.matched_ref_name = res.ret[1],
                                     !.matched_ref_code = res.ret[2],
                                     !.matched_ref_type = res.ret[3]]
                  IN  IF MatcherRaised(res)
                      THEN Caught(called, << >>, res.raised)
                      ELSE [called EXCEPT
                              !.pc = "done",
                              !.extracted_data = data,
                              !.response = [status |-> 200, detail |-> "",
                                            extracted_data |-> data,
                                            mapped_tests |-> h.mapped_tests]]]
    /\ UNCHANGED <<threshold, max_size_mb, clock, fs, loop>>

\* One request, with every URL, image and reply of the model.
Next ==
    \/ Acquire(1, {"w1"}, Urls, Images)
    \/ Compress(1)
    \/ WriteFile(1)
    \/ ReadBack(1)
    \/ CallModel(1, Replies)
    \/ MapTest(1)
    \/ MapRef(1)

Spec == Init /\ [][Next]_vars

\* Two requests at a time, on one worker process or on two; the images and
\* the replies are a few of those above.
FewImages == {img \in Images : img.format # "BMP" /\ img.hi = MaxBlocks /\ img.knee = 90}
FewReplies == {rep \in Replies : ~rep.parsable \/ (rep.has_ref /\ rep.prescribed_test = <<"cbx">>
                                                   /\ rep.referrer_name = "Dr  A.")}

NextWorkers ==
    \E r \in Requests :
         \/ Acquire(r, Procs, {"local", "remote"}, FewImages)
         \/ Compress(r)
         \/ WriteFile(r)
         \/ ReadBack(r)
         \/ CallModel(r, FewReplies)
         \/ MapTest(r)
         \/ MapRef(r)

\* The matching does not touch what the requests share: two thresholds, a
\* valid and an invalid one, stand for all.
InitWorkers == Init /\ threshold \in {60, 150}

SpecWorkers == InitWorkers /\ [][NextWorkers]_vars

\* =====================================================================
\* Properties
\* =====================================================================

Done(r) == handler[r].pc = "done"
Succeeded(r) == Done(r) /\ handler[r].response.status = 200

\* The entry of mapped_tests for a name, as the matcher maps it.
EntryOf(name) ==
    LET ret == map_test_code(name, threshold).ret
    IN  [input_test_name |-> name, matched_test_name |-> ret[1], matched_test_code |-> ret[2]]

\* The entries of the names of a list that match, in the order of the list.
MatchedEntries(names) ==
    LET matched == SelectSeq(names, LAMBDA n : map_test_code(n, threshold).ret[1] # None)
    IN  [i \in 1..Len(matched) |-> EntryOf(matched[i])]

\* The matcher calls of a request: which function, on which name.
CallSig(r) == [i \in 1..Len(handler[r].calls) |->
                 <<handler[r].calls[i].fn, handler[r].calls[i].arg>>]

TestCalls(names) == [i \in 1..Len(names) |-> <<"map_test_code", names[i]>>]

\* One call of map_test_code per test name, in list order, then one call of
\* map_ref_code.
ExpectedCalls(r) ==
    TestCalls(handler[r].test_names)
        \o << <<"map_ref_code", handler[r].extracted_data.referrer_name>> >>

IsPrefix(s, t) == Len(s) <= Len(t) /\ s = SubSeq(t, 1, Len(s))

C2_InvalidThresholdReported ==
    \A r \in Requests :
        ~ValidThreshold(threshold) =>
            /\ handler[r].mapped_tests = << >>
            /\ handler[r].response.mapped_tests = << >>
            /\ handler[r].response.status # 200
            /\ handler[r].response.extracted_data.matched_ref_name = None
            /\ \A i \in 1..Len(handler[r].calls) :
                   handler[r].calls[i].raised = "InvalidThreshold"
            /\ (Done(r) /\ handler[r].test_names # << >>) =>
                   /\ handler[r].response.status = 500
                   /\ handler[r].response.detail = "InvalidThreshold"

\* A request that reached the mapping step under the threshold 1.5 and was
\* answered with the error.
C2_Witness ==
    \E r \in Requests :
        /\ threshold = 150
        /\ Done(r)
        /\ Len(handler[r].calls) = 1
        /\ handler[r].response.detail = "InvalidThreshold"

\* C3: the bytes a request reads back and base64-encodes for the model are the
\* bytes its own call of compress_image wrote.
C3_ReadsOwnBytes ==
    \A r \in Requests :
        handler[r].pc = "encoded" =>
            handler[r].encoded_image = encode_image(handler[r].buffer)

\* C4 as stated: a request that reached the mapping step with a non-empty
\* list has called map_test_code once per element, in order, and then
\* map_ref_code once.
C4_AllCallsMade ==
    \A r \in Requests :
        (Done(r) /\ handler[r].test_names # << >>) => CallSig(r) = ExpectedCalls(r)

\* C4 as amended: the matcher calls made are always a prefix of: map_test_code
\* once per element in list order, then map_ref_code once; during the loop
\* there is exactly one call per element passed; the sequence is complete on
\* every request answered with success, and is cut short only by a call that
\* raises or, before map_ref_code, by a reply without the key referrer_name;
\* with an empty or missing list no matcher is called.
C4_CallsArePrefix ==
    \A r \in Requests :
        /\ IsPrefix(CallSig(r), ExpectedCalls(r))
        /\ handler[r].pc = "mapping" => Len(handler[r].calls) = handler[r].idx - 1
        /\ Succeeded(r) => CallSig(r) = ExpectedCalls(r)
        /\ handler[r].test_names = << >> => handler[r].calls = << >>
        /\ (Done(r) /\ handler[r].test_names # << >> /\ CallSig(r) # ExpectedCalls(r)) =>
               \/ /\ handler[r].calls # << >>
                  /\ handler[r].calls[Len(handler[r].calls)].raised # None
               \/ /\ ~handler[r].extracted_data.has_ref
                  /\ CallSig(r) = TestCalls(handler[r].test_names)

\* A success response after a list of two names: three calls, in order.
C4_Witness ==
    \E r \in Requests :
        /\ Succeeded(r)
        /\ Len(handler[r].test_names) >= 2
        /\ Len(handler[r].calls) = Len(handler[r].test_names) + 1
        /\ handler[r].calls[Len(handler[r].calls)].fn = "map_ref_code"

\* C5: an HTTPException raised inside the handler reaches the client with the
\* status code it was raised with (404 for a missing local file, 400 for an
\* extraction without test names, 400 for a rejected image).
C5_StatusPreserved ==
    \A r \in Requests :
        (Done(r) /\ handler[r].raised # << >>) =>
            handler[r].response.status = handler[r].raised[1]

\* C6: a name the matcher returns the absent result for is left out and is no
\* error: mapped_tests is at every point of the loop the order-preserving
\* list of the entries of the names passed that matched, each with its input
\* name; a success response carries that list for the whole of test_names; and
\* a request that reached the mapping step is answered with success exactly
\* when the threshold is valid and the reply has a referrer_name, however
\* many names matched.
C6_NoMatchIsNormal ==
    \A r \in Requests :
        /\ handler[r].pc = "mapping" =>
               /\ handler[r].idx - 1 <= Len(handler[r].test_names)
               /\ handler[r].mapped_tests =
                      MatchedEntries(SubSeq(handler[r].test_names, 1, handler[r].idx - 1))
        /\ Succeeded(r) =>
               /\ handler[r].response.mapped_tests = MatchedEntries(handler[r].test_names)
               /\ handler[r].response.extracted_data.prescribed_test = handler[r].test_names
        /\ (Done(r) /\ handler[r].test_names # << >>) =>
               (handler[r].response.status = 200
                    <=> (ValidThreshold(threshold) /\ handler[r].extracted_data.has_ref))

\* A success response to a list of two names of which none matched.
C6_Witness ==
    \E r \in Requests :
        /\ Succeeded(r)
        /\ Len(handler[r].test_names) >= 2
        /\ handler[r].response.mapped_tests = << >>

C8_LoopBounded ==
    /\ loop.encodings <= 19
    /\ loop.quality >= MinQuality
    /\ loop.quality <= StartQuality
    /\ loop.pc \in {"idle", "loop"} =>
           loop.quality = StartQuality - QualityStep * loop.encodings
    /\ (loop.pc = "loop" /\ loop.encodings > 0) =>
           ~WithinLimit(loop.pos, max_size_mb)
    /\ loop.pc \in {"write", "returned"} =>
           /\ loop.encodings >= 1
           /\ loop.quality = StartQuality - QualityStep * (loop.encodings - 1)
           /\ WithinLimit(loop.pos, max_size_mb) \/ loop.quality = MinQuality

\* The loop left at quality 5 after 19 encodings, the last still over the
\* limit.
C8_Witness ==
    /\ loop.pc = "returned"
    /\ loop.encodings = 19
    /\ loop.quality = MinQuality
    /\ ~WithinLimit(loop.pos, max_size_mb)

\* C9: when the loop is left because the last encoding is within
\* max_size_mb, the file written holds exactly the blocks of that encoding
\* and is itself within max_size_mb.
C9_FileIsLastEncoding ==
    (loop.pc = "returned" /\ WithinLimit(loop.pos, max_size_mb)) =>
        /\ loop.file = Encoding(1, loop.quality, loop.pos)
        /\ WithinLimit(Len(loop.file), max_size_mb)

====
